---- MODULE Spec2Model ----
(***************************************************************************)
(* Model of arrow_udf_poc: the Arrow C Data Interface cursor of            *)
(* src/arrow.rs (ArrowType::from, ArrowCDataInterfaceSchema::dtype,        *)
(* ArrowArray::from, ArrowArray::next) and the reduction of src/lib.rs     *)
(* (euclidean_1d_scalar_sum, reduction_udf).                               *)
(*                                                                         *)
(* Machine words are WordBits wide instead of 64: i64/isize are the        *)
(* integers I64Min..I64Max, usize is 0..Modulus-1, and every cast and      *)
(* arithmetic operation is computed at that width (a target whose usize    *)
(* is as wide as i64).                                                     *)
(*                                                                         *)
(* The sources do not fix the build profile.  Whether the i64 operators of *)
(* reduction_udf panic on overflow (overflow checks on, the dev profile)   *)
(* or wrap (overflow checks off, the release profile) is therefore an      *)
(* input of the model, overflow_checks, chosen in the initial state.       *)
(*                                                                         *)
(* A panic ends the call: pc = "panicked", nothing is returned (result     *)
(* stays None) and the cursor, if there was one, is gone.                  *)
(***************************************************************************)
EXTENDS Integers, Sequences, FiniteSets, TLC

(***************************************************************************)
(* Bounds of the model.                                                    *)
(***************************************************************************)
WordBits == 8
MaxLen == 2
ExtraPulls == 2

Modulus == 2^WordBits
I64Min == -(2^(WordBits - 1))
I64Max == 2^(WordBits - 1) - 1
I64 == I64Min..I64Max

(***************************************************************************)
(* Fixed-width arithmetic and casts.                                       *)
(***************************************************************************)
\* two's complement reduction of an exact integer to the signed word
wrap(x) == ((x - I64Min) % Modulus) + I64Min

\* `as usize` of a signed word (lib: `interface_array.length as usize`)
as_usize(x) == x % Modulus

\* `as isize` of an unsigned word (`self.length as isize`)
as_isize(u) == IF u > I64Max THEN u - Modulus ELSE u

(***************************************************************************)
(* Panic messages.  A message is its format text and its arguments.        *)
(***************************************************************************)
Msg(text, args) == [text |-> text, args |-> args]
NoPanic == Msg("", <<>>)
TodoMsg == Msg("not yet implemented", <<>>)
Utf8Msg == Msg("called Result::unwrap() on an Err value: Utf8Error", <<>>)
I64OnlyMsg == Msg("Extension only implemented for i64", <<>>)
BuffersMsg(n) == Msg("Extension only implemented for 2-buffer arrays, found {}", <<n>>)
SubOverflowMsg == Msg("attempt to subtract with overflow", <<>>)
NegOverflowMsg == Msg("attempt to negate with overflow", <<>>)
AddOverflowMsg == Msg("attempt to add with overflow", <<>>)

\* Option<T>: None is the empty sequence, Some(v) the one-element sequence
None == <<>>
Some(v) == <<v>>

\* the outcome of a call that may panic
Ok(v) == [panic |-> NoPanic, value |-> v]
Panic(m) == [panic |-> m, value |-> 0]

(***************************************************************************)
(* The inputs of a call: format strings are byte sequences (C strings      *)
(* without the terminator).                                                *)
(***************************************************************************)
RecognizedFormats ==
    { <<110>>, <<98>>, <<99>>, <<67>>, <<115>>, <<83>>, <<105>>, <<73>>,
      <<108>>, <<76>>, <<101>>, <<102>>, <<103>> }
Formats == RecognizedFormats \cup { <<>>, <<122>>, <<108, 108>>, <<255>> }
BufferCounts == {1, 2, 3}
Lengths == (-1)..MaxLen
Values == {I64Min, -2, 3, I64Max}
Scalars == {0, 5}
Offsets == {0, 1}
NullCounts == {0, 1}
ValidityWords == {0, 2^MaxLen - 1}
\* the pointers a buffer list of n entries holds
BufferList(n) == SubSeq(<<"validity", "data", "extra">>, 1, n)

VARIABLES
    schema,          \* host: ArrowCDataInterfaceSchema (the field read: format)
    array,           \* host: ArrowCDataInterfaceArray
    memory,          \* host: the buffers, each a row of words
    release_calls,   \* host: the release callbacks invoked so far
    other,           \* the scalar argument
    overflow_checks, \* the build: TRUE with overflow checks (debug profile)
    pc,              \* "entry", "loop", "returned", "panicked"
    arrow_array,     \* Option<ArrowArray>: the cursor
    accumulator,
    result,          \* Option<i64>: the value handed back to the caller
    panic_msg,
    stdout,
    yielded,         \* the items next() has returned so far
    accesses,        \* the host memory read so far
    twin             \* a second call, run beside the first (SpecPair only)

vars == << schema, array, memory, release_calls, other, overflow_checks, pc,
           arrow_array, accumulator, result, panic_msg, stdout, yielded, accesses,
           twin >>
host == << schema, array, memory, release_calls >>

Access(obj, field, ordinal) == [obj |-> obj, field |-> field, ordinal |-> ordinal]

(***************************************************************************)
(* src/arrow.rs                                                            *)
(***************************************************************************)
\* variant: the unsigned code "L" decoded as Int64
ArrowType_from_unsigned(format_str) ==
    CASE format_str = <<110>> -> Ok("Null")
      [] format_str = <<98>>  -> Ok("Boolean")
      [] format_str = <<99>>  -> Ok("Int8")
      [] format_str = <<67>>  -> Ok("Uint8")
      [] format_str = <<115>> -> Ok("Int16")
      [] format_str = <<83>>  -> Ok("Uint16")
      [] format_str = <<105>> -> Ok("Int32")
      [] format_str = <<73>>  -> Ok("Uint32")
      [] format_str = <<108>> -> Ok("Int64")
      [] format_str = <<76>>  -> Ok("Int64")
      [] format_str = <<101>> -> Ok("Float16")
      [] format_str = <<102>> -> Ok("Float32")
      [] format_str = <<103>> -> Ok("Float64")
      [] OTHER -> Panic(TodoMsg)

ArrowType_from(format_str) ==
    CASE format_str = <<110>> -> Ok("Null")
      [] format_str = <<98>>  -> Ok("Boolean")
      [] format_str = <<99>>  -> Ok("Int8")
      [] format_str = <<67>>  -> Ok("Uint8")
      [] format_str = <<115>> -> Ok("Int16")
      [] format_str = <<83>>  -> Ok("Uint16")
      [] format_str = <<105>> -> Ok("Int32")
      [] format_str = <<73>>  -> Ok("Uint32")
      [] format_str = <<108>> -> Ok("Int64")
      [] format_str = <<76>>  -> Ok("Uint64")
      [] format_str = <<101>> -> Ok("Float16")
      [] format_str = <<102>> -> Ok("Float32")
      [] format_str = <<103>> -> Ok("Float64")
      [] OTHER -> Panic(TodoMsg)

\* CStr::to_str: the bytes must be UTF-8.  The bytes of the model are ASCII (< 128)
\* or 255, and 255 occurs in no UTF-8 encoding.
to_str(bytes) ==
    IF \A i \in 1..Len(bytes) : bytes[i] < 128 THEN Ok(bytes) ELSE Panic(Utf8Msg)

dtype(self) ==
    LET as_str == to_str(self.format)
    IN  IF as_str.panic # NoPanic THEN as_str ELSE ArrowType_from(as_str.value)

NoCursor == [index |-> 0, length |-> 0, data_addr |-> "", validity_addr |-> ""]

\* variant: the buffer-count gate written as `n_buffers < 2`
ArrowArray_from_atleast(interface_array, interface_schema) ==
    LET dt == dtype(interface_schema)
        readFormat == << Access("schema", "format", 0) >>
        readCount == << Access("array", "n_buffers", 0) >>
    IN  IF dt.panic # NoPanic
        THEN [panic |-> dt.panic, value |-> NoCursor, accesses |-> readFormat]
        ELSE IF dt.value # "Int64"
        THEN [panic |-> I64OnlyMsg, value |-> NoCursor, accesses |-> readFormat]
        ELSE IF interface_array.n_buffers < 2
        THEN [panic |-> BuffersMsg(interface_array.n_buffers), value |-> NoCursor,
              accesses |-> readFormat \o readCount \o readCount]
        ELSE [panic |-> NoPanic,
              value |-> [index |-> 0,
                         length |-> as_usize(interface_array.length),
                         data_addr |-> interface_array.buffers[2],
                         validity_addr |-> interface_array.buffers[1]],
              accesses |-> readFormat \o readCount
                           \o << Access("array", "length", 0),
                                 Access("array", "buffers", 1),
                                 Access("array", "buffers", 0) >>]

\* ArrowArray::from: the outcome, the cursor and the host memory it read
ArrowArray_from(interface_array, interface_schema) ==
    LET dt == dtype(interface_schema)
        readFormat == << Access("schema", "format", 0) >>
        readCount == << Access("array", "n_buffers", 0) >>
    IN  IF dt.panic # NoPanic
        THEN [panic |-> dt.panic, value |-> NoCursor, accesses |-> readFormat]
        ELSE IF dt.value # "Int64"
        THEN [panic |-> I64OnlyMsg, value |-> NoCursor, accesses |-> readFormat]
        ELSE IF interface_array.n_buffers # 2
        THEN [panic |-> BuffersMsg(interface_array.n_buffers), value |-> NoCursor,
              accesses |-> readFormat \o readCount \o readCount]
        ELSE [panic |-> NoPanic,
              value |-> [index |-> 0,
                         length |-> as_usize(interface_array.length),
                         data_addr |-> interface_array.buffers[2],
                         validity_addr |-> interface_array.buffers[1]],
              accesses |-> readFormat \o readCount
                           \o << Access("array", "length", 0),
                                 Access("array", "buffers", 1),
                                 Access("array", "buffers", 0) >>]

\* variant: the end test written as `index > length`
next_inclusive(self, mem) ==
    IF self.index > as_isize(self.length)
    THEN [self |-> self, item |-> None, accesses |-> <<>>]
    ELSE [self |-> [self EXCEPT !.index = @ + 1],
          item |-> Some(mem[self.data_addr][self.index]),
          accesses |-> << Access(self.data_addr, "word", self.index) >>]

\* variant: the position advanced by two
next_stride(self, mem) ==
    IF self.index >= as_isize(self.length)
    THEN [self |-> self, item |-> None, accesses |-> <<>>]
    ELSE [self |-> [self EXCEPT !.index = @ + 2],
          item |-> Some(mem[self.data_addr][self.index]),
          accesses |-> << Access(self.data_addr, "word", self.index) >>]

\* variant: the position reset at the end, so that the sequence restarts
next_restart(self, mem) ==
    IF self.index >= as_isize(self.length)
    THEN [self |-> [self EXCEPT !.index = 0], item |-> None, accesses |-> <<>>]
    ELSE [self |-> [self EXCEPT !.index = @ + 1],
          item |-> Some(mem[self.data_addr][self.index]),
          accesses |-> << Access(self.data_addr, "word", self.index) >>]

\* variant: a slot whose validity bit is clear is yielded as 0
next_null_aware(self, mem) ==
    IF self.index >= as_isize(self.length)
    THEN [self |-> self, item |-> None, accesses |-> <<>>]
    ELSE [self |-> [self EXCEPT !.index = @ + 1],
          item |-> IF (mem[self.validity_addr][0] \div (2^self.index)) % 2 = 1
                   THEN Some(mem[self.data_addr][self.index])
                   ELSE Some(0),
          accesses |-> << Access(self.validity_addr, "word", 0),
                          Access(self.data_addr, "word", self.index) >>]

\* <ArrowArray as Iterator>::next: the cursor afterwards, the item, the reads
next(self, mem) ==
    IF self.index >= as_isize(self.length)
    THEN [self |-> self, item |-> None, accesses |-> <<>>]
    ELSE [self |-> [self EXCEPT !.index = @ + 1],
          item |-> Some(mem[self.data_addr][self.index]),
          accesses |-> << Access(self.data_addr, "word", self.index) >>]

(***************************************************************************)
(* src/lib.rs                                                              *)
(***************************************************************************)
\* an i64 operation whose exact result is x: with overflow checks it panics
\* when x is out of range, without them it wraps
Arith(x, msg) ==
    IF x \in I64 THEN Ok(x)
    ELSE IF overflow_checks THEN Panic(msg) ELSE Ok(wrap(x))

i64_abs(x) == Arith(IF x < 0 THEN -x ELSE x, NegOverflowMsg)

\* variant: the difference without abs()
reduction_udf_signed(acc, array_item, scalar) ==
    LET diff == Arith(array_item - scalar, SubOverflowMsg)
    IN  IF diff.panic # NoPanic THEN diff
        ELSE Arith(acc + diff.value, AddOverflowMsg)

\* variant: wrapping_sub, wrapping_abs and wrapping_add in every build
reduction_udf_wrapping(acc, array_item, scalar) ==
    Ok(wrap(acc + wrap(IF wrap(array_item - scalar) < 0
                       THEN -wrap(array_item - scalar)
                       ELSE wrap(array_item - scalar))))

\* variant: saturating_add for the sum
reduction_udf_saturating(acc, array_item, scalar) ==
    LET diff == Arith(array_item - scalar, SubOverflowMsg)
    IN  IF diff.panic # NoPanic THEN diff
        ELSE LET dist == i64_abs(diff.value)
             IN  IF dist.panic # NoPanic THEN dist
                 ELSE IF acc + dist.value > I64Max THEN Ok(I64Max)
                 ELSE IF acc + dist.value < I64Min THEN Ok(I64Min)
                 ELSE Ok(acc + dist.value)

reduction_udf(acc, array_item, scalar) ==
    LET diff == Arith(array_item - scalar, SubOverflowMsg)
    IN  IF diff.panic # NoPanic THEN diff
        ELSE LET dist == i64_abs(diff.value)
             IN  IF dist.panic # NoPanic THEN dist
                 ELSE Arith(acc + dist.value, AddOverflowMsg)

(***************************************************************************)
(* The state when euclidean_1d_scalar_sum is entered.                      *)
(***************************************************************************)
InitCall ==
    /\ schema \in [format : Formats]
    /\ \E n \in BufferCounts :
          array \in [length : Lengths, null_count : NullCounts, offset : Offsets,
                     n_buffers : {n}, buffers : {BufferList(n)}]
    /\ \E words \in [0..(MaxLen - 1) -> Values], bitmap \in ValidityWords :
          memory = [b \in {"validity", "data"} |->
                      [k \in 0..MaxLen |->
                          IF b = "data"
                          THEN (IF k < MaxLen THEN words[k] ELSE 0)
                          ELSE (IF k = 0 THEN bitmap ELSE 0)]]
    /\ release_calls = <<>>
    /\ other \in Scalars
    /\ overflow_checks \in BOOLEAN
    /\ pc = "entry"
    /\ arrow_array = None
    /\ accumulator = 0
    /\ result = None
    /\ panic_msg = NoPanic
    /\ stdout = <<>>
    /\ yielded = <<>>
    /\ accesses = <<>>

Init == InitCall /\ twin = <<>>

\* lib.rs 18-21: build the cursor, zero the accumulator, start the timer
EnterStep ==
    /\ pc = "entry"
    /\ LET made == ArrowArray_from(array, schema)
       IN  /\ accesses' = accesses \o made.accesses
           /\ IF made.panic # NoPanic
              THEN /\ pc' = "panicked"
                   /\ panic_msg' = made.panic
                   /\ UNCHANGED arrow_array
              ELSE /\ pc' = "loop"
                   /\ arrow_array' = Some(made.value)
                   /\ UNCHANGED panic_msg
    /\ accumulator' = 0
    /\ UNCHANGED << host, other, overflow_checks, result, stdout, yielded >>

\* lib.rs 22-24: one turn of the for loop that gets an item
LoopItemStep ==
    /\ pc = "loop"
    /\ LET step == next(arrow_array[1], memory)
       IN  /\ step.item # None
           /\ yielded' = Append(yielded, step.item)
           /\ accesses' = accesses \o step.accesses
           /\ LET folded == reduction_udf(accumulator, step.item[1], other)
              IN  IF folded.panic # NoPanic
                  THEN /\ pc' = "panicked"
                       /\ panic_msg' = folded.panic
                       /\ arrow_array' = None
                       /\ UNCHANGED accumulator
                  ELSE /\ accumulator' = folded.value
                       /\ arrow_array' = Some(step.self)
                       /\ UNCHANGED << pc, panic_msg >>
    /\ UNCHANGED << host, other, overflow_checks, result, stdout >>

\* variant: the array is released before the return
LoopEndStep_releasing ==
    /\ pc = "loop"
    /\ LET step == next(arrow_array[1], memory)
       IN  /\ step.item = None
           /\ yielded' = Append(yielded, step.item)
           /\ accesses' = accesses \o step.accesses
    /\ stdout' = Append(stdout, "Rust loop time: {} secs")
    /\ result' = Some(accumulator)
    /\ arrow_array' = None
    /\ pc' = "returned"
    /\ release_calls' = Append(release_calls, "array")
    /\ UNCHANGED << schema, array, memory, other, overflow_checks, accumulator,
                    panic_msg >>

\* lib.rs 22, 25-27: next() gives None, the loop ends, the time is printed,
\* the cursor is dropped and the accumulator returned
LoopEndStep ==
    /\ pc = "loop"
    /\ LET step == next(arrow_array[1], memory)
       IN  /\ step.item = None
           /\ yielded' = Append(yielded, step.item)
           /\ accesses' = accesses \o step.accesses
    /\ stdout' = Append(stdout, "Rust loop time: {} secs")
    /\ result' = Some(accumulator)
    /\ arrow_array' = None
    /\ pc' = "returned"
    /\ UNCHANGED << host, other, overflow_checks, accumulator, panic_msg >>

Enter == EnterStep /\ UNCHANGED twin
LoopItem == LoopItemStep /\ UNCHANGED twin
LoopEnd == LoopEndStep /\ UNCHANGED twin

Next == Enter \/ LoopItem \/ LoopEnd

Spec == Init /\ [][Next]_vars

(***************************************************************************)
(* The cursor on its own, driven by a caller that may go on pulling after  *)
(* the end.                                                                *)
(***************************************************************************)
ConstructStep ==
    /\ pc = "entry"
    /\ LET made == ArrowArray_from(array, schema)
       IN  /\ accesses' = accesses \o made.accesses
           /\ IF made.panic # NoPanic
              THEN /\ pc' = "panicked"
                   /\ panic_msg' = made.panic
                   /\ UNCHANGED arrow_array
              ELSE /\ pc' = "cursor"
                   /\ arrow_array' = Some(made.value)
                   /\ UNCHANGED panic_msg
    /\ UNCHANGED << host, other, overflow_checks, accumulator, result, stdout, yielded >>

PullStep ==
    /\ pc = "cursor"
    /\ Len(yielded) < MaxLen + ExtraPulls
    /\ LET step == next(arrow_array[1], memory)
       IN  /\ arrow_array' = Some(step.self)
           /\ yielded' = Append(yielded, step.item)
           /\ accesses' = accesses \o step.accesses
    /\ UNCHANGED << host, other, overflow_checks, pc, accumulator, result,
                    panic_msg, stdout >>

Construct == ConstructStep /\ UNCHANGED twin
Pull == PullStep /\ UNCHANGED twin

NextCursor == Construct \/ Pull

SpecCursor == Init /\ [][NextCursor]_vars

(***************************************************************************)
(* Two calls side by side: the second one (twin) is given the same schema, *)
(* scalar, length, buffer list and data words, and any validity bitmap,    *)
(* null_count and offset.  Both run the same code, step for step.          *)
(***************************************************************************)
TwinStart(a, m) ==
    [array |-> a, memory |-> m, pc |-> "entry", arrow_array |-> None,
     accumulator |-> 0, result |-> None, panic_msg |-> NoPanic, yielded |-> <<>>]

\* one step of euclidean_1d_scalar_sum on the call c (the steps of Enter,
\* LoopItem and LoopEnd, as a function of the state of the call)
CallStep(c) ==
    IF c.pc = "entry"
    THEN LET made == ArrowArray_from(c.array, schema)
         IN  IF made.panic # NoPanic
             THEN [c EXCEPT !.pc = "panicked", !.panic_msg = made.panic]
             ELSE [c EXCEPT !.pc = "loop", !.arrow_array = Some(made.value),
                            !.accumulator = 0]
    ELSE IF c.pc = "loop"
    THEN LET step == next(c.arrow_array[1], c.memory)
         IN  IF step.item = None
             THEN [c EXCEPT !.pc = "returned", !.result = Some(c.accumulator),
                            !.arrow_array = None,
                            !.yielded = Append(@, step.item)]
             ELSE LET folded == reduction_udf(c.accumulator, step.item[1], other)
                  IN  IF folded.panic # NoPanic
                      THEN [c EXCEPT !.pc = "panicked", !.panic_msg = folded.panic,
                                     !.arrow_array = None,
                                     !.yielded = Append(@, step.item)]
                      ELSE [c EXCEPT !.accumulator = folded.value,
                                     !.arrow_array = Some(step.self),
                                     !.yielded = Append(@, step.item)]
    ELSE c

\* The first call of a pair has null_count 0, offset 0, an all-clear bitmap
\* and I64Min in every data word at or after its length; the twin takes every
\* other choice of these, so any two calls that differ only there are each
\* compared with the same first call.
InitPair ==
    /\ InitCall
    /\ array.null_count = 0
    /\ array.offset = 0
    /\ memory["validity"][0] = 0
    /\ \A k \in 0..(MaxLen - 1) : k >= array.length => memory["data"][k] = I64Min
    /\ \E nc \in NullCounts, off \in Offsets, bitmap \in ValidityWords,
          tail \in [0..(MaxLen - 1) -> Values] :
          /\ \A k \in 0..(MaxLen - 1) : k < array.length => tail[k] = I64Min
          /\ twin = TwinStart(
                 [array EXCEPT !.null_count = nc, !.offset = off],
                 [memory EXCEPT !["validity"][0] = bitmap,
                                !["data"] = [k \in 0..MaxLen |->
                                    IF k < array.length \/ k = MaxLen
                                    THEN memory["data"][k] ELSE tail[k]]])

PairEnter == EnterStep /\ twin' = CallStep(twin)
PairLoopItem == LoopItemStep /\ twin' = CallStep(twin)
PairLoopEnd == LoopEndStep /\ twin' = CallStep(twin)

NextPair == PairEnter \/ PairLoopItem \/ PairLoopEnd

SpecPair == InitPair /\ [][NextPair]_vars

(***************************************************************************)
(* Vocabulary of the properties.                                           *)
(***************************************************************************)
AbsInt(x) == IF x < 0 THEN -x ELSE x
MaxInt(a, b) == IF a > b THEN a ELSE b
MinInt(a, b) == IF a < b THEN a ELSE b
DataWord(k) == memory["data"][k]
Finished == pc \in {"returned", "panicked"}

\* the exact (unbounded) sum of |v_i - other| over the first n data words
RECURSIVE AbsDiffSum(_)
AbsDiffSum(n) ==
    IF n <= 0 THEN 0 ELSE AbsDiffSum(n - 1) + AbsInt(DataWord(n - 1) - other)

\* no difference and no absolute value among the first n words leaves I64
TermsInRange(n) ==
    \A k \in 0..(n - 1) : /\ DataWord(k) - other \in I64
                          /\ AbsInt(DataWord(k) - other) \in I64

\* nor does any partial sum
InRange(n) == TermsInRange(n) /\ \A k \in 1..n : AbsDiffSum(k) \in I64

\* the fold in two's complement arithmetic, every operation reduced mod 2^w
RECURSIVE WrappedFold(_)
WrappedFold(n) ==
    IF n <= 0 THEN 0
    ELSE wrap(WrappedFold(n - 1) + wrap(AbsInt(wrap(DataWord(n - 1) - other))))

FormatL == <<108>>
WellShaped == schema.format = FormatL /\ array.n_buffers = 2
TypeMismatch == schema.format \in RecognizedFormats \ {FormatL}
Unrecognized ==
    /\ \A i \in 1..Len(schema.format) : schema.format[i] < 128
    /\ schema.format \notin RecognizedFormats
BufferMismatch == schema.format = FormatL /\ array.n_buffers # 2
Overflows == WellShaped /\ ~InRange(array.length)

\* the accesses that go through the buffer list or into a buffer
BufferAccesses ==
    SelectSeq(accesses, LAMBDA a : a.field = "buffers" \/ a.obj \in {"validity", "data", "extra"})
DataReads == SelectSeq(accesses, LAMBDA a : a.obj = "data")
SomeCount == Cardinality({k \in 1..Len(yielded) : yielded[k] # None})
Exhausted == Len(yielded) > 0 /\ yielded[Len(yielded)] = None
Position == arrow_array[1].index

\* the first n data words were yielded and read, in ordinal order, then nothing
YieldsFirst(n) ==
    /\ \A k \in 1..Len(yielded) :
          yielded[k] = IF k <= n THEN Some(DataWord(k - 1)) ELSE None
    /\ DataReads = [k \in 1..MinInt(Len(yielded), n) |-> Access("data", "word", k - 1)]

(***************************************************************************)
(* C1.  For format "l", 2 buffers, a length n >= 0 and a scalar such that  *)
(* no difference, absolute value or partial sum leaves the i64 range, the  *)
(* call does not panic and returns exactly the sum of |v_i - other| over   *)
(* the first n data words (0 when n = 0).                                  *)
(***************************************************************************)
C1_ExactSum ==
    (WellShaped /\ array.length >= 0 /\ InRange(array.length))
        => /\ pc # "panicked"
           /\ pc = "returned" => result = Some(AbsDiffSum(array.length))

C1_Witness ==
    /\ pc = "returned" /\ WellShaped /\ array.length = MaxLen
    /\ InRange(array.length)
    /\ DataWord(0) = 3 /\ DataWord(1) = -2 /\ other = 5
    /\ result = Some(9)

(***************************************************************************)
(* C2 as stated: once the cursor has reported the end it has yielded       *)
(* exactly array.length values, the k-th being data word k, read in        *)
(* ordinal order.                                                          *)
(***************************************************************************)
C2_AsStated ==
    pc = "cursor" => /\ YieldsFirst(array.length)
                     /\ Exhausted => SomeCount = array.length

(***************************************************************************)
(* C2 amended: the cursor yields exactly max(length, 0) values (a declared *)
(* negative length yields none), the k-th being data word k, read in       *)
(* ordinal order with no slot skipped or repeated.                         *)
(***************************************************************************)
C2_LengthFidelity ==
    pc = "cursor" => /\ YieldsFirst(MaxInt(array.length, 0))
                     /\ Exhausted => SomeCount = MaxInt(array.length, 0)

C2_Witness ==
    /\ pc = "cursor" /\ array.length = MaxLen /\ Exhausted
    /\ SomeCount = MaxLen
    /\ DataWord(0) # DataWord(1)

(***************************************************************************)
(* C3.  Once the cursor has yielded its length-th value, every further     *)
(* next() yields None, leaves the cursor as it is and reads no host        *)
(* memory.                                                                 *)
(***************************************************************************)
C3_ExhaustionIdempotent ==
    [][ (pc = "cursor" /\ SomeCount >= array.length /\ yielded' # yielded)
            => /\ yielded' = Append(yielded, None)
               /\ arrow_array' = arrow_array
               /\ accesses' = accesses ]_vars

C3_Witness ==
    /\ pc = "cursor" /\ array.length = MaxLen
    /\ Len(yielded) = MaxLen + ExtraPulls
    /\ \A k \in (MaxLen + 1)..Len(yielded) : yielded[k] = None
    /\ Position = MaxLen

(***************************************************************************)
(* C4.  A schema whose format is a recognized code other than "l" is       *)
(* rejected (panic "Extension only implemented for i64"), no cursor is     *)
(* built, and neither the buffer list nor any buffer has been read.        *)
(***************************************************************************)
C4_TypeGate ==
    (TypeMismatch /\ pc # "entry")
        => /\ pc = "panicked"
           /\ panic_msg = I64OnlyMsg
           /\ arrow_array = None
           /\ result = None
           /\ BufferAccesses = <<>>

C4_Witness ==
    /\ pc = "panicked" /\ schema.format = <<76>> /\ array.n_buffers = 2
    /\ array.length = MaxLen /\ Len(accesses) > 0

(***************************************************************************)
(* C5 as stated: an array descriptor with n_buffers # 2 is rejected before *)
(* any buffer pointer is read, with a message that carries n_buffers.      *)
(***************************************************************************)
C5_AsStated ==
    (array.n_buffers # 2 /\ pc # "entry")
        => /\ pc = "panicked"
           /\ arrow_array = None
           /\ BufferAccesses = <<>>
           /\ panic_msg = BuffersMsg(array.n_buffers)

(***************************************************************************)
(* C5 amended: an array descriptor with n_buffers # 2 is rejected before   *)
(* any buffer pointer is read; the message carries n_buffers when the      *)
(* schema format is "l", otherwise the format gates, which come first,     *)
(* give their own message.                                                 *)
(***************************************************************************)
C5_BufferGate ==
    (array.n_buffers # 2 /\ pc # "entry")
        => /\ pc = "panicked"
           /\ arrow_array = None
           /\ BufferAccesses = <<>>
           /\ schema.format = FormatL => panic_msg = BuffersMsg(array.n_buffers)
           /\ schema.format # FormatL => panic_msg \in {I64OnlyMsg, TodoMsg, Utf8Msg}

C5_Witness ==
    /\ pc = "panicked" /\ schema.format = FormatL /\ array.n_buffers = 3
    /\ panic_msg.args = <<3>>

\* the panic message names a fatal condition that the inputs do have
MessageNamesCause ==
    \/ panic_msg = I64OnlyMsg /\ TypeMismatch
    \/ panic_msg = BuffersMsg(array.n_buffers) /\ BufferMismatch
    \/ panic_msg = TodoMsg /\ Unrecognized
    \/ panic_msg \in {SubOverflowMsg, NegOverflowMsg, AddOverflowMsg} /\ Overflows

(***************************************************************************)
(* C6 as stated: a call whose inputs meet a fatal condition (type          *)
(* mismatch, buffer-count mismatch, unrecognized format code, arithmetic   *)
(* overflow) never returns a value, and ends in a panic whose message      *)
(* names that condition.                                                   *)
(***************************************************************************)
C6_AsStated ==
    (TypeMismatch \/ BufferMismatch \/ Unrecognized \/ Overflows)
        => /\ result = None
           /\ pc # "returned"
           /\ pc = "panicked" => MessageNamesCause

(***************************************************************************)
(* C6 amended: type mismatch, buffer-count mismatch and an unrecognized    *)
(* format code always end the call in a panic with no value returned, and  *)
(* so does arithmetic overflow in a build with overflow checks; each panic *)
(* message belongs to the condition that failed.  In a build without       *)
(* overflow checks an overflowing call is not fatal: it returns a value.   *)
(***************************************************************************)
C6_FatalAborts ==
    /\ (TypeMismatch \/ BufferMismatch \/ Unrecognized \/ (Overflows /\ overflow_checks))
          => /\ result = None
             /\ pc # "returned"
             /\ pc = "panicked" => MessageNamesCause
    /\ (Overflows /\ ~overflow_checks) => pc # "panicked"

C6_Witness ==
    /\ pc = "panicked" /\ overflow_checks /\ Overflows
    /\ panic_msg = AddOverflowMsg
    /\ accumulator > 0 /\ result = None

(***************************************************************************)
(* C7 as stated: when a difference, an absolute value or the running sum   *)
(* leaves the i64 range, the call still runs to completion and returns the *)
(* two's complement (wrapped) result.                                      *)
(***************************************************************************)
C7_AsStated ==
    (Overflows /\ array.length >= 0)
        => /\ pc # "panicked"
           /\ pc = "returned" => result = Some(WrappedFold(array.length))

(***************************************************************************)
(* C7 amended: in a build without overflow checks (the release profile)    *)
(* an overflowing call runs to completion and returns the fold computed in *)
(* two's complement arithmetic, which is the exact sum reduced modulo 2^w  *)
(* when only the running sum overflows; in a build with overflow checks    *)
(* (the debug profile) the same call panics at the first overflow.         *)
(***************************************************************************)
C7_WrapsWithoutChecks ==
    (Overflows /\ array.length >= 0)
        => IF overflow_checks
           THEN pc # "returned" /\ result = None
           ELSE /\ pc # "panicked"
                /\ pc = "returned"
                      => /\ result = Some(WrappedFold(array.length))
                         /\ TermsInRange(array.length)
                               => result = Some(wrap(AbsDiffSum(array.length)))

C7_Witness ==
    /\ pc = "returned" /\ ~overflow_checks /\ WellShaped
    /\ array.length = 2 /\ DataWord(0) = I64Min /\ DataWord(1) = I64Max /\ other = 0
    /\ result = Some(-1)

(***************************************************************************)
(* C8.  No step of a call changes the schema descriptor, the array         *)
(* descriptor, the validity buffer or the data buffer, no release callback *)
(* is invoked, and once the call has returned or panicked no cursor (the   *)
(* only value that holds the buffer addresses) is left.                    *)
(***************************************************************************)
C8_HostUntouched ==
    [][ /\ schema' = schema /\ array' = array /\ memory' = memory
        /\ release_calls' = <<>>
        /\ pc' \in {"returned", "panicked"} => arrow_array' = None ]_vars

C8_Witness ==
    /\ pc = "returned" /\ array.length = MaxLen
    /\ Len(DataReads) = MaxLen /\ arrow_array = None /\ release_calls = <<>>

(***************************************************************************)
(* C9 as stated: the position of a cursor is always in [0, length], with   *)
(* length the declared length of the array descriptor, negative ones       *)
(* included.                                                               *)
(***************************************************************************)
C9_AsStated ==
    pc = "cursor" => Position \in 0..array.length

(***************************************************************************)
(* C9 amended: the position of a cursor is always in [0, max(length, 0)]   *)
(* (it stays 0 when the declared length is negative); it changes only by a *)
(* next() that adds exactly 1; and host memory is read by next() only at   *)
(* the data word whose ordinal is the position, while position < length.   *)
(***************************************************************************)
C9_PositionInvariant ==
    [][ pc' = "cursor"
          => /\ arrow_array'[1].index \in 0..MaxInt(array'.length, 0)
             /\ pc = "cursor"
                   => /\ arrow_array'[1].index \in {Position, Position + 1}
                      /\ arrow_array'[1].index # Position => yielded' # yielded
                      /\ [arrow_array'[1] EXCEPT !.index = 0]
                            = [arrow_array[1] EXCEPT !.index = 0]
                      /\ accesses' # accesses
                            => /\ accesses' = Append(accesses, Access("data", "word", Position))
                               /\ Position < array.length
                               /\ arrow_array'[1].index = Position + 1 ]_vars

C9_Witness ==
    /\ pc = "cursor" /\ array.length = MaxLen /\ Position = MaxLen
    /\ Len(yielded) > MaxLen /\ Len(DataReads) = MaxLen

(***************************************************************************)
(* C10.  Two calls with the same schema, scalar, length, buffer list and   *)
(* data words 0..length-1, which differ in the validity bitmap, in         *)
(* null_count, in offset and in the data words from ordinal length on,     *)
(* are at every step at the same place, with the same values yielded, the  *)
(* same accumulator, and the same result or panic.                         *)
(***************************************************************************)
C10_SameOutcome ==
    /\ twin.pc = pc
    /\ twin.yielded = yielded
    /\ twin.accumulator = accumulator
    /\ twin.result = result
    /\ twin.panic_msg = panic_msg

C10_Witness ==
    /\ pc = "returned" /\ array.length = 1 /\ result # Some(0)
    /\ twin.array.offset = 1 /\ twin.array.null_count = 1
    /\ twin.memory["validity"][0] # memory["validity"][0]
    /\ twin.memory["data"][1] # memory["data"][1]
    /\ twin.result = result

====
